---- MODULE Spec2Model ----
(***************************************************************************)
(* Model of the mock NRIC verification demo (src/app.py): the two text     *)
(* heuristics extract_name and extract_nric_last_4, and the POST /verify   *)
(* handler verify_nric as a per-request state machine.                     *)
(*                                                                         *)
(* A Python str is a sequence of one-character strings.  The regular       *)
(* expressions of the source are computed position by position, the way    *)
(* re.search / re.findall scan a text (leftmost match, greedy quantifiers, *)
(* non-overlapping matches).  The alphabet is ASCII.                       *)
(***************************************************************************)
EXTENDS Integers, Sequences, FiniteSets, TLC

\* ------------------------------------------------------------------------
\* Bounds of the model
\* ------------------------------------------------------------------------

\* How many fragments a recognized text handed to the heuristics is made of.
MaxFrags == 3

\* How many POST /verify requests are in flight together.
NumRequests == 2

\* ------------------------------------------------------------------------
\* Characters and character classes
\* ------------------------------------------------------------------------

UpperSeq ==
  << "A","B","C","D","E","F","G","H","I","J","K","L","M",
     "N","O","P","Q","R","S","T","U","V","W","X","Y","Z" >>

LowerSeq ==
  << "a","b","c","d","e","f","g","h","i","j","k","l","m",
     "n","o","p","q","r","s","t","u","v","w","x","y","z" >>

UpperLetters == { UpperSeq[i] : i \in 1..26 }

LowerLetters == { LowerSeq[i] : i \in 1..26 }

DigitChars == { "0","1","2","3","4","5","6","7","8","9" }

\* What \s matches and what str.split() / str.strip() treat as whitespace.
SpaceChars == { " ", "\n", "\t" }

\* str.upper() on one character.
UpperOf == [ c \in LowerLetters |-> UpperSeq[CHOOSE i \in 1..26 : LowerSeq[i] = c] ]

ToUpper(c) == IF c \in LowerLetters THEN UpperOf[c] ELSE c

\* \d
IsDigit(c) == c \in DigitChars

\* [A-Z] and [A-Za-z] under re.IGNORECASE: any letter.
IsLetter(c) == c \in UpperLetters \/ c \in LowerLetters

\* \s
IsSpace(c) == c \in SpaceChars

\* str.isupper() of one character.
IsUpper(c) == c \in UpperLetters

\* str.upper() of a string.
Upper(s) == [ i \in 1..Len(s) |-> ToUpper(s[i]) ]

\* The sentinel both heuristics return.
NotDetected == << "N","o","t"," ","d","e","t","e","c","t","e","d" >>

\* ------------------------------------------------------------------------
\* extract_nric_last_4
\* ------------------------------------------------------------------------

\* The number of digits of the pattern [STFG]\d{7}[A-Z].
NricDigits == 7

\* The least length of a run of the fallback pattern \d{7,}.
MinRunLen == 7

\* How many trailing digits are returned.
SuffixLen == 4

NricPrefixes == { "S", "T", "F", "G" }

\* The pattern [STFG]\d{7}[A-Z] under re.IGNORECASE matches at position i.
NricMatchAt(text, i) ==
  /\ i >= 1
  /\ i + NricDigits + 1 <= Len(text)
  /\ ToUpper(text[i]) \in NricPrefixes
  /\ \A k \in 1..NricDigits : IsDigit(text[i + k])
  /\ IsLetter(text[i + NricDigits + 1])

\* re.findall(nric_pattern, text, re.IGNORECASE): the non-overlapping matches,
\* scanning from position 1 to the right.
FindAllNric(text) ==
  LET from[i \in Nat] ==
        IF i > Len(text) THEN << >>
        ELSE IF NricMatchAt(text, i)
             THEN << SubSeq(text, i, i + NricDigits + 1) >> \o from[i + NricDigits + 2]
             ELSE from[i + 1]
  IN  from[1]

\* As \d{7} would do: at most seven digits of the run that starts at position i.
DigitRunEndSeven(text, i) ==
  LET stop[k \in Nat] ==
        IF k <= Len(text) /\ k <= i + 6 /\ IsDigit(text[k]) THEN stop[k + 1] ELSE k - 1
  IN  stop[i]

\* The end of the run of digits that starts at position i (i - 1 when text[i]
\* is no digit): the greedy \d{7,} takes the whole run.
DigitRunEnd(text, i) ==
  LET stop[k \in Nat] ==
        IF k <= Len(text) /\ IsDigit(text[k]) THEN stop[k + 1] ELSE k - 1
  IN  stop[i]

\* re.findall(r'\d{7,}', text): the non-overlapping runs of seven or more
\* digits, scanning from position 1 to the right.
FindAllDigitRuns(text) ==
  LET from[i \in Nat] ==
        IF i > Len(text) THEN << >>
        ELSE LET e == DigitRunEnd(text, i) IN
             IF e - i + 1 >= MinRunLen
             THEN << SubSeq(text, i, e) >> \o from[e + 1]
             ELSE from[i + 1]
  IN  from[1]

\* re.findall(r'\d', s): the digit characters of s, in order.
DigitsOf(s) == SelectSeq(s, IsDigit)

\* As a return without the slice would do.
WholeString(s) == s

\* s[-4:]
LastFour(s) == SubSeq(s, IF Len(s) > SuffixLen THEN Len(s) - SuffixLen + 1 ELSE 1, Len(s))

\* As matches[-1] would do.
LastOf(found) == found[Len(found)]

\* matches[0], digit_sequences[0]
First(found) == found[1]

\* The fallback of extract_nric_last_4: the first run of seven or more digits.
NricFallback(text) ==
  LET digit_sequences == FindAllDigitRuns(text) IN
  IF digit_sequences # << >> THEN LastFour(First(digit_sequences)) ELSE NotDetected

extract_nric_last_4(text) ==
  IF text = << >> THEN NotDetected
  ELSE LET matches == FindAllNric(text) IN
       IF matches # << >>
       THEN LET full_nric == Upper(First(matches))
                digits == DigitsOf(full_nric)
            IN  IF Len(digits) >= SuffixLen THEN LastFour(digits)
                ELSE NricFallback(text)
       ELSE NricFallback(text)

\* ------------------------------------------------------------------------
\* extract_name
\* ------------------------------------------------------------------------

\* How many capitalized words the fallback joins at most.
MaxNameWords == 3

\* A capitalized word is longer than this.
MinWordLen == 2

\* The label of the pattern (?:NAME|Name), compared case-insensitively.
NameLabel == << "N", "A", "M", "E" >>

\* The first position from i on that holds no whitespace (\s* is greedy).
SkipSpaces(text, i) ==
  LET skip[k \in Nat] ==
        IF k <= Len(text) /\ IsSpace(text[k]) THEN skip[k + 1] ELSE k
  IN  skip[i]

\* The end of the run of letters and whitespace that starts at position i
\* (i - 1 when there is none): the greedy [A-Za-z\s]+.
NameRunEnd(text, i) ==
  LET stop[k \in Nat] ==
        IF k <= Len(text) /\ (IsLetter(text[k]) \/ IsSpace(text[k]))
        THEN stop[k + 1] ELSE k - 1
  IN  stop[i]

\* Where group 1 of (?:NAME|Name):\s*([A-Z][A-Za-z\s]+) starts when the label
\* stands at position i.
NameGroupStart(text, i) == SkipSpaces(text, i + Len(NameLabel) + 1)

\* The pattern, under re.IGNORECASE, matches at position i.
NameMatchAt(text, i) ==
  /\ i >= 1
  /\ i + Len(NameLabel) <= Len(text)
  /\ Upper(SubSeq(text, i, i + Len(NameLabel) - 1)) = NameLabel
  /\ text[i + Len(NameLabel)] = ":"
  /\ LET j == NameGroupStart(text, i) IN
       /\ j + 1 <= Len(text)
       /\ IsLetter(text[j])
       /\ IsLetter(text[j + 1]) \/ IsSpace(text[j + 1])

\* re.search: the leftmost position where the pattern matches, scanning from
\* position 1 to the right, 0 when there is none.
NameSearch(text) ==
  LET from[i \in Nat] ==
        IF i > Len(text) THEN 0
        ELSE IF NameMatchAt(text, i) THEN i
        ELSE from[i + 1]
  IN  from[1]

\* name_match.group(1) of the match at position i.
NameGroup(text, i) ==
  LET j == NameGroupStart(text, i) IN SubSeq(text, j, NameRunEnd(text, j + 1))

\* s without its leading whitespace.
LStrip(s) == SubSeq(s, SkipSpaces(s, 1), Len(s))

\* s without its trailing whitespace.
RStrip(s) ==
  LET stop[k \in Nat] == IF k >= 1 /\ IsSpace(s[k]) THEN stop[k - 1] ELSE k
  IN  SubSeq(s, 1, stop[Len(s)])

\* str.strip()
Strip(s) == RStrip(LStrip(s))

\* The end of the run of non-whitespace characters that starts at position i.
WordEnd(text, i) ==
  LET stop[k \in Nat] ==
        IF k <= Len(text) /\ ~IsSpace(text[k]) THEN stop[k + 1] ELSE k - 1
  IN  stop[i]

\* text.split(): the maximal runs of non-whitespace characters, from position
\* 1 to the right.
Split(text) ==
  LET from[i \in Nat] ==
        IF i > Len(text) THEN << >>
        ELSE IF IsSpace(text[i]) THEN from[i + 1]
        ELSE LET e == WordEnd(text, i) IN << SubSeq(text, i, e) >> \o from[e + 1]
  IN  from[1]

\* w and w[0].isupper() and len(w) > 2
IsCapitalized(w) == w # << >> /\ IsUpper(w[1]) /\ Len(w) > MinWordLen

\* As capitalized[:2] would do.
FirstTwoWords(ws) == SubSeq(ws, 1, IF Len(ws) > 2 THEN 2 ELSE Len(ws))

\* capitalized[:3]
FirstWords(ws) == SubSeq(ws, 1, IF Len(ws) > MaxNameWords THEN MaxNameWords ELSE Len(ws))

\* ' '.join(ws)
Join(ws) ==
  LET from[k \in Nat] ==
        IF k > Len(ws) THEN << >>
        ELSE IF k = Len(ws) THEN ws[k]
        ELSE ws[k] \o << " " >> \o from[k + 1]
  IN  from[1]

\* The fallback of extract_name: the first capitalized words.
NameFallback(text) ==
  LET words == Split(text)
      capitalized == SelectSeq(words, IsCapitalized)
  IN  IF capitalized # << >> THEN Join(FirstWords(capitalized)) ELSE NotDetected

extract_name(text) ==
  IF text = << >> THEN NotDetected
  ELSE LET name_match == NameSearch(text) IN
       IF name_match # 0 THEN Strip(NameGroup(text, name_match))
       ELSE NameFallback(text)

\* ------------------------------------------------------------------------
\* Recognized texts the heuristics are applied to
\* ------------------------------------------------------------------------

\* The pieces the texts are made of: two full IDs (upper and lower case), two
\* bare runs of seven digits, a short run of digits, single letters, the name
\* label in both cases, separators and words.
Fragments ==
  { << "S","1","2","3","4","5","6","7","A" >>,
    << "t","9","8","7","6","5","4","3","b" >>,
    << "7","6","5","4","3","2","1" >>,
    << "0","2","4","6","8","1","3" >>,
    << "8","9" >>,
    << "S" >>,
    << "a" >>,
    << "N","A","M","E",":" >>,
    << "n","a","m","e",":" >>,
    << " " >>,
    << "\n" >>,
    << "J","o" >>,
    << "D","O","E" >>,
    << "A","n","n"," ","B","o","b"," " >> }

\* The concatenations of at most n fragments.
RECURSIVE TextsUpTo(_)
TextsUpTo(n) ==
  IF n = 0 THEN { << >> }
  ELSE LET shorter == TextsUpTo(n - 1) IN
       shorter \cup { t \o f : t \in shorter, f \in Fragments }

Texts == TextsUpTo(MaxFrags)

\* ------------------------------------------------------------------------
\* State
\* ------------------------------------------------------------------------

VARIABLES
  text,         \* the recognized text handed to the heuristics on their own
  name_out,     \* what extract_name returned for it
  nric_out,     \* what extract_nric_last_4 returned for it
  upload,       \* per request: the multipart payload (request.files)
  pc,           \* per request: the stage the handler has reached
  image,        \* per request: the local image (the decoded bitmap)
  ocr_text,     \* per request: the local ocr_text
  name,         \* per request: the local name
  nric_last_4,  \* per request: the local nric_last_4
  sent          \* per request: the responses returned to the caller

fnVars == << text, name_out, nric_out >>

reqVars == << upload, pc, image, ocr_text, name, nric_last_4, sent >>

vars == << text, name_out, nric_out, upload, pc, image, ocr_text, name, nric_last_4, sent >>

\* A call that has not returned yet, and one that returned v.
Pending == [ done |-> FALSE, value |-> << >> ]

Returned(v) == [ done |-> TRUE, value |-> v ]

\* A local variable that is not assigned yet, and one that holds v.
None == << >>

Some(v) == << v >>

\* ------------------------------------------------------------------------
\* The heuristics applied to one text
\* ------------------------------------------------------------------------

InitFn ==
  /\ text \in Texts
  /\ name_out = Pending
  /\ nric_out = Pending
  /\ upload = << >>
  /\ pc = << >>
  /\ image = << >>
  /\ ocr_text = << >>
  /\ name = << >>
  /\ nric_last_4 = << >>
  /\ sent = << >>

CallExtractName ==
  /\ ~name_out.done
  /\ name_out' = Returned(extract_name(text))
  /\ UNCHANGED << text, nric_out >>
  /\ UNCHANGED reqVars

CallExtractNric ==
  /\ ~nric_out.done
  /\ nric_out' = Returned(extract_nric_last_4(text))
  /\ UNCHANGED << text, name_out >>
  /\ UNCHANGED reqVars

NextFn == CallExtractName \/ CallExtractNric

SpecFn == InitFn /\ [][NextFn]_vars

\* ------------------------------------------------------------------------
\* POST /verify: the request payloads and the external collaborators
\* ------------------------------------------------------------------------

Requests == 1..NumRequests

\* What a call returns, and what it raises (str(e) of the exception).
Ok(v) == [ ok |-> TRUE, value |-> v ]

Raise(e) == [ ok |-> FALSE, error |-> e ]

\* What an image shows: the text the OCR engine reads off it, when the engine
\* can process it at all.
NoPicture == [ readable |-> FALSE, shows |-> << >> ]

\* The texts on the uploaded cards: a blank image, a bare ID, a labelled card
\* with a lower-case ID, a bare run of digits.
CardTexts ==
  { << >>,
    << "S","1","2","3","4","5","6","7","A" >>,
    << "N","A","M","E",":"," ","D","O","E","\n","t","9","8","7","6","5","4","3","b" >>,
    << "7","6","5","4","3","2","1" >> }

Pictures == { NoPicture } \cup { [ readable |-> TRUE, shows |-> t ] : t \in CardTexts }

\* The bytes of an uploaded file: an encoded picture, bytes that are no image,
\* or no bytes at all.
FileData ==
  { [ format |-> "png", picture |-> p ] : p \in Pictures }
    \cup { [ format |-> "text", picture |-> NoPicture ],
           [ format |-> "empty", picture |-> NoPicture ] }

\* request.files: the names of the multipart fields that carry a file, and the
\* file's bytes.  A payload has no file, a file under another name, or a file
\* under the name image.
Uploads ==
  { [ fields |-> {}, data |-> [ format |-> "empty", picture |-> NoPicture ] ],
    [ fields |-> { "file" },
      data |-> [ format |-> "png", picture |-> [ readable |-> TRUE, shows |-> << >> ] ] ] }
    \cup { [ fields |-> { "image" }, data |-> d ] : d \in FileData }

\* Image.open(io.BytesIO(image_data))
ImageOpen(data) ==
  IF data.format = "png" THEN Ok(data.picture)
  ELSE Raise("cannot identify image file")

\* pytesseract.image_to_string(image)
ImageToString(picture) ==
  IF picture.readable THEN Ok(picture.shows)
  ELSE Raise("tesseract failed")

\* The seconds of the clock datetime.now(sgt) reads.
Seconds == { 0, 1 }

SecondChar == << "0", "1" >>

\* strftime('%Y-%m-%d %H:%M:%S %Z') of a time of the Asia/Singapore zone.
Strftime(now) ==
  << "2","0","2","5","-","0","1","-","0","1"," ","0","8",":","0","0",":","0" >>
    \o << SecondChar[now + 1] >> \o << " ","+","0","8" >>

\* ------------------------------------------------------------------------
\* POST /verify: the handler verify_nric
\* ------------------------------------------------------------------------

\* As a test for any uploaded file, whatever its field name, would do.
HasAnyFile(u) == u.fields # {}

\* 'image' in request.files
HasImageField(u) == "image" \in u.fields

\* jsonify({'error': 'No image provided'}), 400
NoImageResponse == [ status |-> 400, body |-> [ error |-> "No image provided" ] ]

\* As an error payload that also carries a success flag would do.
ErrorResponseWithSuccess(e) == [ status |-> 500, body |-> [ success |-> FALSE, error |-> e ] ]

\* jsonify({'error': str(e)}), 500
ErrorResponse(e) == [ status |-> 500, body |-> [ error |-> e ] ]

\* jsonify({'success': True, ...}), with the default status
SuccessResponse(t, n, d, ts) ==
  [ status |-> 200,
    body |-> [ success |-> TRUE, ocr_text |-> t, name |-> n,
               nric_last_4 |-> d, timestamp |-> ts ] ]

\* As a module-level ocr_text, shared by the requests, would do: the text of
\* whichever request has recognized one.
SharedText(r) == ocr_text[CHOOSE q \in DOMAIN ocr_text : ocr_text[q] # << >>][1]

\* The local ocr_text of request r, as the extraction and the response read it.
RequestText(r) == ocr_text[r][1]

Init ==
  /\ upload \in [ Requests -> Uploads ]
  /\ pc = [ r \in Requests |-> "Received" ]
  /\ image = [ r \in Requests |-> None ]
  /\ ocr_text = [ r \in Requests |-> None ]
  /\ name = [ r \in Requests |-> None ]
  /\ nric_last_4 = [ r \in Requests |-> None ]
  /\ sent = [ r \in Requests |-> << >> ]
  /\ text = << >>
  /\ name_out = Pending
  /\ nric_out = Pending

\* The request has no image field: the 400 response.
RejectNoImage(r) ==
  /\ pc[r] = "Received"
  /\ ~HasImageField(upload[r])
  /\ sent' = [ sent EXCEPT ![r] = Append(@, NoImageResponse) ]
  /\ pc' = [ pc EXCEPT ![r] = "Failed" ]
  /\ UNCHANGED << upload, image, ocr_text, name, nric_last_4 >>
  /\ UNCHANGED fnVars

\* image_file.read() and Image.open: the bitmap, or the exception's 500 response.
Decode(r) ==
  /\ pc[r] = "Received"
  /\ HasImageField(upload[r])
  /\ LET opened == ImageOpen(upload[r].data) IN
       IF opened.ok
       THEN /\ image' = [ image EXCEPT ![r] = Some(opened.value) ]
            /\ pc' = [ pc EXCEPT ![r] = "Decoded" ]
            /\ UNCHANGED sent
       ELSE /\ sent' = [ sent EXCEPT ![r] = Append(@, ErrorResponse(opened.error)) ]
            /\ pc' = [ pc EXCEPT ![r] = "Failed" ]
            /\ UNCHANGED image
  /\ UNCHANGED << upload, ocr_text, name, nric_last_4 >>
  /\ UNCHANGED fnVars

\* As a handler that starts the request over when the OCR engine fails would do.
RecognizeRetry(r) ==
  /\ pc[r] = "Decoded"
  /\ LET read == ImageToString(image[r][1]) IN
       IF read.ok
       THEN /\ ocr_text' = [ ocr_text EXCEPT ![r] = Some(read.value) ]
            /\ pc' = [ pc EXCEPT ![r] = "Recognized" ]
            /\ UNCHANGED image
       ELSE /\ image' = [ image EXCEPT ![r] = None ]
            /\ pc' = [ pc EXCEPT ![r] = "Received" ]
            /\ UNCHANGED ocr_text
  /\ UNCHANGED << upload, name, nric_last_4, sent >>
  /\ UNCHANGED fnVars

\* pytesseract.image_to_string: the text, or the exception's 500 response.
Recognize(r) ==
  /\ pc[r] = "Decoded"
  /\ LET read == ImageToString(image[r][1]) IN
       IF read.ok
       THEN /\ ocr_text' = [ ocr_text EXCEPT ![r] = Some(read.value) ]
            /\ pc' = [ pc EXCEPT ![r] = "Recognized" ]
            /\ UNCHANGED sent
       ELSE /\ sent' = [ sent EXCEPT ![r] = Append(@, ErrorResponse(read.error)) ]
            /\ pc' = [ pc EXCEPT ![r] = "Failed" ]
            /\ UNCHANGED ocr_text
  /\ UNCHANGED << upload, image, name, nric_last_4 >>
  /\ UNCHANGED fnVars

\* name = extract_name(ocr_text); nric_last_4 = extract_nric_last_4(ocr_text)
Extract(r) ==
  /\ pc[r] = "Recognized"
  /\ name' = [ name EXCEPT ![r] = Some(extract_name(RequestText(r))) ]
  /\ nric_last_4' = [ nric_last_4 EXCEPT ![r] = Some(extract_nric_last_4(RequestText(r))) ]
  /\ pc' = [ pc EXCEPT ![r] = "Extracted" ]
  /\ UNCHANGED << upload, image, ocr_text, sent >>
  /\ UNCHANGED fnVars

\* The timestamp and the success response.
Respond(r) ==
  /\ pc[r] = "Extracted"
  /\ \E now \in Seconds :
       sent' = [ sent EXCEPT ![r] =
                   Append(@, SuccessResponse(RequestText(r), name[r][1],
                                             nric_last_4[r][1], Strftime(now))) ]
  /\ pc' = [ pc EXCEPT ![r] = "Responded" ]
  /\ UNCHANGED << upload, image, ocr_text, name, nric_last_4 >>
  /\ UNCHANGED fnVars

\* One step of the handler of request r.
Step(r) ==
  \/ RejectNoImage(r)
  \/ Decode(r)
  \/ Recognize(r)
  \/ Extract(r)
  \/ Respond(r)

Next == \E r \in Requests : Step(r)

Spec == Init /\ [][Next]_vars

\* The handlers run on: while a request is between its stages, some handler
\* takes its next step (the hosting runtime serves every request, and the
\* handler is straight-line code with no wait).
FairSpec == Spec /\ WF_vars(Next)

\* ------------------------------------------------------------------------
\* What the claims speak of, stated on the text itself
\* ------------------------------------------------------------------------

\* The text holds a match of the ID pattern.
HasNric(t) == \E i \in 1..Len(t) : NricMatchAt(t, i)

\* The position of the leftmost match of the ID pattern.
LeftmostNric(t) ==
  CHOOSE i \in 1..Len(t) : NricMatchAt(t, i) /\ \A j \in 1..(i - 1) : ~NricMatchAt(t, j)

\* The positions where a maximal run of digits starts, and where the run ends.
RunStarts(t) == { i \in 1..Len(t) : IsDigit(t[i]) /\ (i = 1 \/ ~IsDigit(t[i - 1])) }

RunStop(t, i) ==
  CHOOSE j \in i..Len(t) :
    /\ \A k \in i..j : IsDigit(t[k])
    /\ j = Len(t) \/ ~IsDigit(t[j + 1])

\* The starts of the maximal runs of seven or more digits.
LongRunStarts(t) == { i \in RunStarts(t) : RunStop(t, i) - i + 1 >= 7 }

\* The least element of a non-empty set of positions.
Least(S) == CHOOSE i \in S : \A j \in S : i <= j

\* The positions where a whitespace-separated token starts, and where it ends.
WordStarts(t) == { i \in 1..Len(t) : ~IsSpace(t[i]) /\ (i = 1 \/ IsSpace(t[i - 1])) }

WordStop(t, i) ==
  CHOOSE j \in i..Len(t) :
    /\ \A k \in i..j : ~IsSpace(t[k])
    /\ j = Len(t) \/ IsSpace(t[j + 1])

Word(t, i) == SubSeq(t, i, WordStop(t, i))

\* The starts of the tokens whose first character is uppercase and whose
\* length exceeds two.
CapStarts(t) == { i \in WordStarts(t) : IsUpper(t[i]) /\ WordStop(t, i) - i + 1 > 2 }

\* The k-th least element of a set of positions.
Kth(S, k) == CHOOSE i \in S : Cardinality({ j \in S : j < i }) = k - 1

\* The first three (or fewer) such tokens, in text order, joined by one space.
FirstThreeCaps(t) ==
  LET C == CapStarts(t) IN
  IF Cardinality(C) = 1 THEN Word(t, Kth(C, 1))
  ELSE IF Cardinality(C) = 2 THEN Word(t, Kth(C, 1)) \o << " " >> \o Word(t, Kth(C, 2))
  ELSE Word(t, Kth(C, 1)) \o << " " >> \o Word(t, Kth(C, 2)) \o << " " >> \o Word(t, Kth(C, 3))

IsFourDigits(s) == Len(s) = 4 /\ \A i \in 1..Len(s) : IsDigit(s[i])

\* needle occurs in hay.
Contains(hay, needle) ==
  \E i \in 1..(Len(hay) - Len(needle) + 1) : SubSeq(hay, i, i + Len(needle) - 1) = needle

\* The full nine-character IDs a text holds.
FullIds(t) == { SubSeq(t, i, i + 8) : i \in { j \in 1..Len(t) : NricMatchAt(t, j) } }

Terminal(r) == pc[r] \in { "Responded", "Failed" }

\* ------------------------------------------------------------------------
\* Claims on the heuristics (specification SpecFn)
\* ------------------------------------------------------------------------

\* C2: extract_nric_last_4 returns "Not detected" or exactly four digit
\* characters, never anything longer, a letter or the full ID; for the empty
\* text it returns "Not detected".
C2_SuffixShape ==
  nric_out.done =>
    /\ nric_out.value = NotDetected \/ IsFourDigits(nric_out.value)
    /\ text = << >> => nric_out.value = NotDetected

\* C2's case: a text with a full ID was answered with four digits.
C2_Witness == nric_out.done /\ HasNric(text) /\ IsFourDigits(nric_out.value)

\* C5: for a text with a match of the ID pattern, extract_nric_last_4 returns
\* the last four of the seven digits of the leftmost match, whatever follows
\* it and whatever digit run stands elsewhere in the text.
C5_LeftmostIdSuffix ==
  (nric_out.done /\ HasNric(text)) =>
    LET m == LeftmostNric(text) IN nric_out.value = SubSeq(text, m + 4, m + 7)

\* C5's case: a text with two IDs of different suffixes was answered.
C5_Witness ==
  /\ nric_out.done
  /\ \E i, j \in 1..Len(text) :
       /\ i < j
       /\ NricMatchAt(text, i)
       /\ NricMatchAt(text, j)
       /\ SubSeq(text, i + 4, i + 7) # SubSeq(text, j + 4, j + 7)

\* C6: for a non-empty text with no match of the ID pattern,
\* extract_nric_last_4 returns the last four characters of the leftmost maximal
\* run of seven or more digits, and "Not detected" when there is no such run.
C6_FallbackRun ==
  (nric_out.done /\ text # << >> /\ ~HasNric(text)) =>
    IF LongRunStarts(text) = {} THEN nric_out.value = NotDetected
    ELSE LET i == Least(LongRunStarts(text))
             j == RunStop(text, i)
         IN  nric_out.value = SubSeq(text, j - 3, j)

\* C6's case: a text with no ID whose first long run has more than seven
\* digits was answered.
C6_Witness ==
  /\ nric_out.done
  /\ ~HasNric(text)
  /\ LongRunStarts(text) # {}
  /\ LET i == Least(LongRunStarts(text)) IN RunStop(text, i) - i + 1 > 7

\* C7: when extract_name answers through the label rule, the value is the
\* captured span trimmed of surrounding whitespace, it starts with an uppercase
\* letter and it holds letters and spaces only (any whitespace counts as a
\* space here).
C7_LabelValue ==
  (name_out.done /\ NameSearch(text) # 0) =>
    LET v == name_out.value IN
      /\ v = Strip(NameGroup(text, NameSearch(text)))
      /\ v # << >>
      /\ IsUpper(v[1])
      /\ \A i \in 1..Len(v) : IsLetter(v[i]) \/ IsSpace(v[i])

\* C8: when the label rule does not match, extract_name returns the first
\* three (or fewer) whitespace-separated tokens that start with an uppercase
\* character and are longer than two, in text order, joined by one space, and
\* "Not detected" when there is none or the text is empty.
C8_CapitalizedWords ==
  (name_out.done /\ NameSearch(text) = 0) =>
    IF CapStarts(text) = {} THEN name_out.value = NotDetected
    ELSE name_out.value = FirstThreeCaps(text)

\* C8's case: a text without the label and with more than three such tokens
\* was answered.
C8_Witness ==
  /\ name_out.done
  /\ NameSearch(text) = 0
  /\ Cardinality(CapStarts(text)) > 3

\* ------------------------------------------------------------------------
\* Claims on POST /verify (specifications Spec and FairSpec)
\* ------------------------------------------------------------------------

\* C1: when the recognized text holds a full ID, no field of the response
\* (ocr_text, name, nric_last_4, timestamp) holds that nine-character ID.  (A
\* response with an error field has no recognized text.)
C1_NoFullIdInResponse ==
  \A r \in Requests : \A k \in 1..Len(sent[r]) :
    LET resp == sent[r][k] IN
    resp.status = 200 =>
      \A id \in FullIds(ocr_text[r][1]) :
        /\ ~Contains(resp.body.ocr_text, id)
        /\ ~Contains(resp.body.name, id)
        /\ ~Contains(resp.body.nric_last_4, id)
        /\ ~Contains(resp.body.timestamp, id)

\* C3: a request with no image field ends Failed with status 400 and the body
\* {error: "No image provided"}, never decodes, recognizes or extracts, and
\* status 400 is given for no other reason.
C3_NoImageRejected ==
  \A r \in Requests :
    /\ "image" \notin upload[r].fields =>
         /\ image[r] = None
         /\ ocr_text[r] = None
         /\ name[r] = None
         /\ nric_last_4[r] = None
         /\ pc[r] \in { "Received", "Failed" }
         /\ pc[r] = "Received" => sent[r] = << >>
         /\ pc[r] = "Failed" =>
              sent[r] = << [ status |-> 400, body |-> [ error |-> "No image provided" ] ] >>
    /\ \A k \in 1..Len(sent[r]) :
         sent[r][k].status = 400 => "image" \notin upload[r].fields

\* C3's case: a payload that carries a file, but not under the name image, was
\* rejected.
C3_Witness ==
  \E r \in Requests : pc[r] = "Failed" /\ upload[r].fields = { "file" }

\* C4: when decoding or OCR fails, the request is aborted with status 500 and
\* a body that holds the error field alone, with the failure's description; the
\* heuristics are not run and no success field is sent.
C4_ProcessingErrorOnly ==
  \A r \in Requests :
    LET opened == ImageOpen(upload[r].data) IN
    ("image" \in upload[r].fields /\ (~opened.ok \/ ~ImageToString(opened.value).ok)) =>
      LET description ==
            IF ~opened.ok THEN opened.error ELSE ImageToString(opened.value).error
      IN  /\ name[r] = None
          /\ nric_last_4[r] = None
          /\ pc[r] \notin { "Extracted", "Responded" }
          /\ pc[r] # "Failed" => sent[r] = << >>
          /\ pc[r] = "Failed" =>
               /\ Len(sent[r]) = 1
               /\ sent[r][1].status = 500
               /\ DOMAIN sent[r][1].body = { "error" }
               /\ sent[r][1].body.error = description

\* C4's case: a request whose image decoded and whose OCR failed was aborted.
C4_Witness ==
  \E r \in Requests : pc[r] = "Failed" /\ image[r] # None /\ Len(sent[r]) = 1

\* The order of the stages.
StageEdges ==
  { << "Received", "Decoded" >>, << "Decoded", "Recognized" >>,
    << "Recognized", "Extracted" >>, << "Extracted", "Responded" >>,
    << "Received", "Failed" >>, << "Decoded", "Failed" >>,
    << "Recognized", "Failed" >>, << "Extracted", "Failed" >> }

\* A request has sent one response when it is over and none before; a request
\* that Responded sent status 200 with success true after every stage ran.
StageState(r) ==
  /\ pc[r] \in { "Received", "Decoded", "Recognized", "Extracted", "Responded", "Failed" }
  /\ Len(sent[r]) = IF Terminal(r) THEN 1 ELSE 0
  /\ pc[r] = "Responded" =>
       /\ sent[r][1].status = 200
       /\ sent[r][1].body.success = TRUE
       /\ image[r] # None
       /\ ocr_text[r] # None
       /\ name[r] # None
       /\ nric_last_4[r] # None

\* A request moves along the order of the stages only, and not at all once
\* it is over.
StageStep(r) ==
  /\ pc'[r] # pc[r] => << pc[r], pc'[r] >> \in StageEdges
  /\ Terminal(r) => pc'[r] = pc[r] /\ sent'[r] = sent[r]

\* C9: every request passes Received, Decoded, Recognized, Extracted,
\* Responded in this order, each stage after the one before succeeded, and ends
\* in exactly one of Responded (status 200, success true, after decode, OCR and
\* both heuristics) and Failed; no stage is retried, no response is sent twice.
C9_Lifecycle ==
  /\ [](\A r \in Requests : StageState(r))
  /\ [][\A r \in Requests : StageStep(r)]_vars
  /\ <>(\A r \in Requests : Terminal(r))

\* C9's case: one request Responded and another one Failed.
C9_Witness ==
  \E r, q \in Requests : pc[r] = "Responded" /\ pc[q] = "Failed" /\ Len(sent[r]) = 1

\* A field of a response body, when the body has it.
Field(body, f) == IF f \in DOMAIN body THEN Some(body[f]) ELSE None

\* What a response shows but for its timestamp and its error text.
Observed(resp) ==
  << resp.status, Field(resp.body, "ocr_text"), Field(resp.body, "name"),
     Field(resp.body, "nric_last_4") >>

\* What the request with payload u shows when it runs alone.
Alone(u) ==
  IF "image" \notin u.fields THEN << 400, None, None, None >>
  ELSE IF u.data.format # "png" \/ ~u.data.picture.readable
       THEN << 500, None, None, None >>
  ELSE LET t == u.data.picture.shows IN
       << 200, Some(t), Some(extract_name(t)), Some(extract_nric_last_4(t)) >>

\* C10: in every interleaving of the requests' stages, the status, ocr_text,
\* name and nric_last_4 of each response are those of the request run alone:
\* they depend on the request's own upload only.
C10_Independent ==
  \A r \in Requests :
    /\ Terminal(r) => Len(sent[r]) = 1 /\ Observed(sent[r][1]) = Alone(upload[r])
    /\ name[r] # None => name[r][1] = extract_name(upload[r].data.picture.shows)
    /\ nric_last_4[r] # None =>
         nric_last_4[r][1] = extract_nric_last_4(upload[r].data.picture.shows)

\* C10's case: a request has Responded while another one, with another text
\* on its image, is between its stages.
C10_Witness ==
  \E r, q \in Requests :
    /\ pc[r] = "Responded"
    /\ pc[q] \in { "Recognized", "Extracted" }
    /\ ocr_text[q] # ocr_text[r]

====
